---------------------------- MODULE Spec2Model ----------------------------
(***************************************************************************)
(* Relationship-stage state machine of the persona chat service.           *)
(*                                                                         *)
(* Strings are sequences of Unicode code points, so that substring tests,  *)
(* slices, splits and the CJK character count are computed on the model    *)
(* exactly as the Python code computes them on str values.                 *)
(*                                                                         *)
(* Persistent state is the part of the database the stage logic reads and  *)
(* writes for ONE (user, persona) pair: the pair's Conversation rows, the  *)
(* number of Message rows of each, and the pair's AgentState rows.         *)
(* Timestamp columns (last_interaction_at, updated_at, created_at and the  *)
(* "last_interaction" trait) and the statistics columns (message_count,    *)
(* total_tokens, usage_count, Conversation.current_stage) are not part of  *)
(* the model: no modelled decision reads them.                             *)
(*                                                                         *)
(* sessions holds, for requests that run at the same time, the position of *)
(* each in process_chat and the row its database session has loaded.       *)
(* agent holds the character profile of a CharacterAgent: the configured   *)
(* JSON value, the profile validate_and_normalize made of it, and the      *)
(* system prompt built from that profile.                                  *)
(* call holds one call of a text function (formatting, extraction) with    *)
(* its result, or the Message rows of one conversation together with the   *)
(* message list its last turn sent to the model.                           *)
(* messages also counts the rows of one conversation the user has with     *)
(* another persona (OtherConversation), which is never in conversations.   *)
(***************************************************************************)
EXTENDS Integers, Sequences, FiniteSets, TLC

VARIABLES
  conversations,  \* set of ids of the pair's Conversation rows
  messages,       \* messages[c]: number of Message rows with conversation_id = c
  agent_states,   \* sequence of the pair's AgentState rows (query order)
  last,           \* what the last operation did and returned to its caller
  sessions,       \* sessions[p]: where request p stands in process_chat, and what
                  \* its database session holds in memory
  agent,          \* the CharacterAgent under construction: the configured
                  \* profile, its character_profile and the prompt built from it
  call            \* one call of a text function: its arguments and, once it
                  \* has returned, its result; or the rows and the message
                  \* list of one conversation

vars == <<conversations, messages, agent_states, last, sessions, agent, call>>

---------------------------------------------------------------------------
(* Bounds of the model *)

MaxConvs == 2          \* conversation ids are 1..MaxConvs
MaxMessages == 4       \* Spec: cap on the Message rows of the pair
MaxInteractions == 2   \* Spec: cap on user_traits.interaction_count
DeepMaxMessages == 32  \* SpecSingle / SpecSerial: cap on the Message rows
DeepMaxInteractions == 16  \* SpecSingle / SpecSerial: cap on interaction_count
TopicMaxMessages == 12     \* SpecTopics: cap on the Message rows
TopicMaxInteractions == 5  \* SpecTopics: cap on interaction_count
OverlapMaxTurns == 3       \* SpecOverlap: cap on the turns begun
MaxTextLen == 4            \* SpecText: longest text formatted
MaxCut == 3                \* SpecText: largest max_length
MaxFragments == 2          \* SpecText: pieces of the model's reply
TraitMaxMessages == 8       \* SpecTraits: cap on the Message rows
TraitMaxInteractions == 3   \* SpecTraits: cap on interaction_count
MemoryMaxMessages == 20     \* SpecMemories: cap on the Message rows
MemoryMaxInteractions == 9  \* SpecMemories: cap on interaction_count
HistoryMaxMessages == 8     \* SpecText: cap on the Message rows of the conversation
ForeignMaxMessages == 6     \* SpecForeign: cap on the Message rows of the user
ForeignMaxInteractions == 3 \* SpecForeign: cap on interaction_count

---------------------------------------------------------------------------
(* Program constants *)

FamiliarThreshold == 5    \* interaction_count < 5  -> Stranger
FriendlyThreshold == 15   \* interaction_count < 15 -> Familiar
IntimateThreshold == 30   \* interaction_count < 30 -> Friendly
MemoryOverride == 8       \* key_memories_count > 8 promotes Friendly
MaxMemories == 15         \* key_memories keeps the last 15
MaxTopics == 10           \* conversation_topics keeps the last 10
MaxMemoryLen == 100       \* mem[:100]
MaxNewMemories == 2       \* memories[:2]
SentencePrefixLen == 50   \* sentence.strip()[:50]
MinSentenceLen == 5       \* len(sentence.strip()) > 5
MaxLength == 150          \* output_format.get('max_length', 150)
CjkFirst == 19968         \* u4e00
CjkLast == 40959          \* u9fff

Stranger == <<38476, 29983, 26399>>  \* 陌生期
Familiar == <<29087, 24713, 26399>>  \* 熟悉期
Friendly == <<21451, 22909, 26399>>  \* 友好期
Intimate == <<20146, 23494, 26399>>  \* 亲密期
RELATIONSHIP_STAGES == <<Stranger, Familiar, Friendly, Intimate>>

\* the emotions of emotion_keywords
Emotion ==
  [anger |-> <<24868, 24594>>,  \* 愤怒
   sadness |-> <<24754, 20260>>,  \* 悲伤
   joy |-> <<21916, 24742>>,  \* 喜悦
   conflicted |-> <<30683, 30462>>,  \* 矛盾
   fear |-> <<24656, 24807>>]  \* 恐惧

emotion_keywords ==
  << <<Emotion.anger, <<<<24868, 24594>>, <<29983, 27668>>, <<21457, 24594>>, <<24594, 28779>>, <<27668, 24868>>>>>>,  \* 愤怒 生气 发怒 怒火 气愤
     <<Emotion.sadness, <<<<24754, 20260>>, <<38590, 36807>>, <<20260, 24515>>, <<21741, 27875>>, <<24754, 30171>>>>>>,  \* 悲伤 难过 伤心 哭泣 悲痛
     <<Emotion.joy, <<<<39640, 20852>>, <<24320, 24515>>, <<21916, 24742>>, <<24494, 31505>>, <<24555, 20048>>>>>>,  \* 高兴 开心 喜悦 微笑 快乐
     <<Emotion.conflicted, <<<<30683, 30462>>, <<32416, 32467>>, <<29369, 35947>>, <<25379, 25166>>, <<22256, 24785>>>>>>,  \* 矛盾 纠结 犹豫 挣扎 困惑
     <<Emotion.fear, <<<<23475, 24597>>, <<24656, 24807>>, <<24778, 24908>>, <<25285, 24515>>, <<30031, 24807>>>>>> >>  \* 害怕 恐惧 惊慌 担心 畏惧

topic_keywords ==
  <<<<21073>>, <<25112, 26007>>, <<21644, 24179>>, <<38431, 21451>>, <<22238, 24518>>, <<39764, 29579>>, <<29579, 22269>>, <<39764, 27861>>, <<20351, 21629>>, <<22797, 20167>>, <<29233, 24773>>, <<21451, 35850>>, <<29306, 29298>>>>
  \* 剑 战斗 和平 队友 回忆 魔王 王国 魔法 使命 复仇 爱情 友谊 牺牲

promise_keywords ==
  <<<<27704, 36828>>, <<25215, 35834>>, <<35475, 35328>>, <<32422, 23450>>>>
  \* 永远 承诺 誓言 约定
secret_keywords ==
  <<<<31192, 23494>>, <<30495, 30456>>, <<38544, 34255>>, <<25581, 38706>>>>
  \* 秘密 真相 隐藏 揭露
apology_keywords ==
  <<<<23545, 19981, 36215>>, <<25265, 27465>>, <<21407, 35845>>, <<24724, 24680>>>>
  \* 对不起 抱歉 原谅 悔恨
\* the key points of extract_info_from_response
KeyPoint ==
  [important_promise |-> <<37325, 35201, 25215, 35834>>,  \* 重要承诺
   secret_revealed |-> <<31192, 23494, 25581, 31034>>,  \* 秘密揭示
   apology_or_forgiveness |-> <<36947, 27465, 25110, 21407, 35845>>]  \* 道歉或原谅

\* variant: every emotion of emotion_keywords counts as strong
strong_emotions_all ==
  <<Emotion.anger, Emotion.sadness, Emotion.joy, Emotion.conflicted, Emotion.fear>>
strong_emotions == <<Emotion.anger, Emotion.sadness, Emotion.joy, Emotion.fear>>
important_keywords ==
  <<<<27704, 36828>>, <<25215, 35834>>, <<35475, 35328>>, <<31192, 23494>>, <<30495, 30456>>, <<23545, 19981, 36215>>, <<35874, 35874>>>>
  \* 永远 承诺 誓言 秘密 真相 对不起 谢谢

\* the traits of emotion_to_trait
Trait ==
  [direct |-> <<30452, 25509>>,  \* 直接
   sensitive |-> <<24863, 24615>>,  \* 感性
   optimistic |-> <<20048, 35266>>,  \* 乐观
   cautious |-> <<35880, 24910>>]  \* 谨慎
emotion_to_trait ==
  << <<Emotion.anger, Trait.direct>>, <<Emotion.sadness, Trait.sensitive>>, <<Emotion.joy, Trait.optimistic>>, <<Emotion.conflicted, Trait.cautious>> >>

\* the fixed texts of the memories _extract_key_memories builds
MemoryText ==
  [emotion_prefix |-> <<23545, 35805, 20013, 34920, 36798, 20102, 24378, 28872, 30340>>,  \* 对话中表达了强烈的
   emotion_suffix |-> <<24773, 32490>>,  \* 情绪
   mention_prefix |-> <<25552, 21040, 65306>>]  \* 提到：
\* punctuation the formatting code writes
Mark ==
  [ellipsis |-> <<46, 46, 46>>,  \* ...
   space |-> <<32>>,
   quote |-> <<34>>,
   asterisk |-> <<42>>]
ApologyPrefix == <<25265, 27465, 65292, 25105, 36935, 21040, 20102, 19968, 20123, 38382, 39064, 65306>>  \* 抱歉，我遇到了一些问题：
SentenceEnd == {12290, 65281, 65311, 46, 33, 63}  \* 。！？.!?
Whitespace == {32, 9, 10, 11, 12, 13}

---------------------------------------------------------------------------
(* Inputs the environment offers *)

\* messages the user sends
UserText ==
  [plain |-> <<20320, 22909>>,  \* 你好
   thanks |-> <<35874, 35874, 20320, 19968, 30452, 38506, 30528, 25105, 12290>>,  \* 谢谢你一直陪着我。
   sword |-> <<36825, 25226, 21073, 26159, 35841, 30340, 65311>>]  \* 这把剑是谁的？
\* what self.llm.invoke returns, and the text of the exception it raises
LlmText ==
  [plain_reply |-> <<21999>>,  \* 嗯
   joy_reply |-> <<42, 24494, 31505, 42, 32, 24456, 39640, 20852, 35265, 21040, 20320>>,  \* *微笑* 很高兴见到你
   anger_reply |-> <<25105, 24456, 29983, 27668>>,  \* 我很生气
   sadness_reply |-> <<25105, 24456, 38590, 36807>>,  \* 我很难过
   fear_reply |-> <<25105, 24456, 23475, 24597>>,  \* 我很害怕
   torn_reply |-> <<25105, 24456, 30683, 30462>>,  \* 我很矛盾
   mixed_reply |-> <<25105, 24456, 23475, 24597, 20063, 24456, 29983, 27668>>,  \* 我很害怕也很生气
   provider_error |-> <<116, 105, 109, 101, 111, 117, 116>>]  \* timeout
\* user messages that name topics
TopicText ==
  [sword |-> <<21073, 32, 25112, 26007, 32, 21644, 24179, 32, 38431, 21451>>,  \* 剑 战斗 和平 队友
   memory |-> <<22238, 24518, 32, 39764, 29579, 32, 29579, 22269, 32, 39764, 27861>>,  \* 回忆 魔王 王国 魔法
   mission |-> <<20351, 21629, 32, 22797, 20167, 32, 29233, 24773, 32, 21451, 35850>>,  \* 使命 复仇 爱情 友谊
   sacrifice |-> <<29306, 29298, 32, 21073>>]  \* 牺牲 剑

UserInputs == {UserText.plain, UserText.thanks, UserText.sword}
DeepUserInputs == {UserText.plain, UserText.thanks}
TopicInputs == {TopicText.sword, TopicText.memory, TopicText.mission, TopicText.sacrifice}
\* what self.llm.invoke does: raise, or return raw text
LlmFails == [failed |-> TRUE, content |-> LlmText.provider_error]
LlmReturns(text) == [failed |-> FALSE, content |-> text]
LlmOutcomes == {LlmFails, LlmReturns(LlmText.plain_reply), LlmReturns(LlmText.joy_reply)}
DeepLlmOutcomes == {LlmFails, LlmReturns(LlmText.plain_reply)}
\* replies in which emotion keywords occur
EmotionOutcomes ==
  {LlmReturns(LlmText.joy_reply), LlmReturns(LlmText.anger_reply),
   LlmReturns(LlmText.sadness_reply), LlmReturns(LlmText.fear_reply),
   LlmReturns(LlmText.torn_reply), LlmReturns(LlmText.mixed_reply)}
\* what the database does in step 8 of process_chat
DbOutcomes == {"ok", "save_fails", "count_fails"}

---------------------------------------------------------------------------
(* Python str / list / dict primitives *)

Min(a, b) == IF a < b THEN a ELSE b
Max(a, b) == IF a > b THEN a ELSE b

\* kw in text
Contains(text, kw) ==
  \E i \in 1..(Len(text) - Len(kw) + 1) : SubSeq(text, i, i + Len(kw) - 1) = kw

\* x in list
InList(x, list) == \E i \in 1..Len(list) : list[i] = x

\* s[:n]
Prefix(s, n) == SubSeq(s, 1, Min(n, Len(s)))

\* s[-n:]
LastN(s, n) == SubSeq(s, Max(1, Len(s) - n + 1), Len(s))

\* s.strip()
Strip(s) ==
  LET keep == {i \in 1..Len(s) : s[i] \notin Whitespace}
  IN IF keep = {} THEN <<>>
     ELSE SubSeq(s, CHOOSE i \in keep : \A j \in keep : i <= j,
                    CHOOSE i \in keep : \A j \in keep : i >= j)

\* d.get(key, [])
Get(d, key) == IF key \in DOMAIN d THEN d[key] ELSE <<>>

EmptyDict == [k \in {} |-> 0]

\* re.sub(r'\s+', ' ', s)
RECURSIVE CollapseWhitespace(_)
CollapseWhitespace(s) ==
  IF s = <<>> THEN <<>>
  ELSE IF Head(s) \in Whitespace
       THEN LET rest == CollapseWhitespace(Tail(s))
            IN IF Len(s) > 1 /\ s[2] \in Whitespace THEN rest ELSE Mark.space \o rest
       ELSE <<Head(s)>> \o CollapseWhitespace(Tail(s))

\* index of the first sentence terminator of s, 0 if none
FirstEnd(s) ==
  IF \A i \in 1..Len(s) : s[i] \notin SentenceEnd THEN 0
  ELSE CHOOSE i \in 1..Len(s) :
         s[i] \in SentenceEnd /\ \A j \in 1..(i - 1) : s[j] \notin SentenceEnd

\* re.split(r'[。！？.!?]', s)
RECURSIVE Split(_)
Split(s) ==
  IF FirstEnd(s) = 0 THEN <<s>>
  ELSE <<SubSeq(s, 1, FirstEnd(s) - 1)>> \o Split(SubSeq(s, FirstEnd(s) + 1, Len(s)))

\* re.split(r'([。！？.!?])', s) with each sentence joined to its terminator
\* (sentences[i] + sentences[i + 1])
RECURSIVE SplitKeep(_)
SplitKeep(s) ==
  IF FirstEnd(s) = 0 THEN <<s>>
  ELSE <<SubSeq(s, 1, FirstEnd(s))>> \o SplitKeep(SubSeq(s, FirstEnd(s) + 1, Len(s)))

\* len(re.findall(r'[一-鿿]', s))
ChineseChars(s) == Cardinality({i \in 1..Len(s) : s[i] >= CjkFirst /\ s[i] <= CjkLast})

---------------------------------------------------------------------------
(* CharacterAgent *)

\* the sentence-boundary truncation loop of format_response
RECURSIVE Accumulate(_, _, _)
Accumulate(chunks, truncated, max_length) ==
  IF chunks = <<>> THEN truncated
  ELSE IF ChineseChars(truncated \o Head(chunks)) > max_length THEN truncated
       ELSE Accumulate(Tail(chunks), truncated \o Head(chunks), max_length)

\* the narration / dialogue convention applied to one line
FormatLine(raw_line) ==
  LET line == Strip(raw_line)
  IN IF Len(line) >= 1 /\ line[1] = Mark.asterisk[1] /\ line[Len(line)] = Mark.asterisk[1]
     THEN Mark.asterisk \o Strip(SubSeq(line, 2, Len(line) - 1)) \o Mark.asterisk
     ELSE IF line # <<>> /\ line[1] # Mark.quote[1]
          THEN Mark.quote \o line \o Mark.quote
          ELSE line

\* CharacterAgent.format_response with max_length the value of
\* output_format.  After the whitespace collapse the text holds no line
\* break, so response.split('\n') is the one line.
format_response_max(response, max_length) ==
  LET cleaned == Strip(CollapseWhitespace(response))
      truncated == Accumulate(SplitKeep(cleaned), <<>>, max_length)
      cut == IF ChineseChars(cleaned) > max_length
             THEN IF Len(truncated) < Len(cleaned)
                  THEN truncated \o Mark.ellipsis ELSE truncated
             ELSE cleaned
  IN FormatLine(cut)

\* CharacterAgent.format_response of an agent with the default max_length
format_response(response) == format_response_max(response, MaxLength)

\* the categories whose keyword list has a keyword in the response,
\* in declaration order
RECURSIVE DetectEmotions(_, _)
DetectEmotions(table, response) ==
  IF table = <<>> THEN <<>>
  ELSE (IF \E k \in 1..Len(Head(table)[2]) : Contains(response, Head(table)[2][k])
        THEN <<Head(table)[1]>> ELSE <<>>)
       \o DetectEmotions(Tail(table), response)

RECURSIVE DetectTopics(_, _, _)
DetectTopics(keywords, response, user_input) ==
  IF keywords = <<>> THEN <<>>
  ELSE (IF Contains(response, Head(keywords)) \/ Contains(user_input, Head(keywords))
        THEN <<Head(keywords)>> ELSE <<>>)
       \o DetectTopics(Tail(keywords), response, user_input)

AnyIn(keywords, text) == \E k \in 1..Len(keywords) : Contains(text, keywords[k])

\* CharacterAgent.extract_info_from_response
extract_info_from_response(response, user_input) ==
  [topics |-> DetectTopics(topic_keywords, response, user_input),
   emotions |-> DetectEmotions(emotion_keywords, response),
   key_points |->
     (IF AnyIn(promise_keywords, response) THEN <<KeyPoint.important_promise>> ELSE <<>>)
     \o (IF AnyIn(secret_keywords, response) THEN <<KeyPoint.secret_revealed>> ELSE <<>>)
     \o (IF AnyIn(apology_keywords, response) THEN <<KeyPoint.apology_or_forgiveness>> ELSE <<>>)]

\* variant: the except branch reports the provider's text as the raw reply
generate_response_leaky(user_input, llm) ==
  [response |-> IF llm.failed THEN ApologyPrefix \o llm.content
                ELSE format_response(llm.content),
   raw_response |-> llm.content,
   extracted_info |->
     IF llm.failed THEN EmptyDict
     ELSE extract_info_from_response(format_response(llm.content), user_input)]

\* CharacterAgent.generate_response from the model call on: the try block
\* and its except branch
generate_response(user_input, llm) ==
  IF llm.failed
  THEN [response |-> ApologyPrefix \o llm.content,
        raw_response |-> <<>>,
        extracted_info |-> EmptyDict]
  ELSE [response |-> format_response(llm.content),
        raw_response |-> llm.content,
        extracted_info |->
          extract_info_from_response(format_response(llm.content), user_input)]

---------------------------------------------------------------------------
(* ResponseFormatter *)

\* '一-鿿' in char: the three-character text 一-鿿 is looked for
\* in a text of one character
InRangeText(char) == Contains(<<char>>, <<CjkFirst, 45, CjkLast>>)

\* the character-by-character loop of truncate_text
RECURSIVE HardCut(_, _, _, _)
HardCut(text, truncated, char_count, max_chinese_chars) ==
  IF text = <<>> THEN truncated
  ELSE LET count == IF InRangeText(Head(text)) THEN char_count + 1 ELSE char_count
       IN IF count >= max_chinese_chars
          THEN Append(truncated, Head(text))
          ELSE HardCut(Tail(text), Append(truncated, Head(text)), count, max_chinese_chars)

\* s.rstrip('，。！？,.!?')
RECURSIVE RStripPunctuation(_)
RStripPunctuation(s) ==
  IF s # <<>> /\ s[Len(s)] \in {65292, 12290, 65281, 65311, 44, 46, 33, 63}
  THEN RStripPunctuation(SubSeq(s, 1, Len(s) - 1))
  ELSE s

\* ResponseFormatter.truncate_text.  count < max_chinese_chars * 0.3 is
\* compared in tenths.
truncate_text(text, max_chinese_chars) ==
  LET by_sentence == Accumulate(SplitKeep(text), <<>>, max_chinese_chars)
      truncated == IF 10 * ChineseChars(by_sentence) < 3 * max_chinese_chars
                   THEN HardCut(text, <<>>, 0, max_chinese_chars)
                   ELSE by_sentence
  IN IF Len(truncated) < Len(text)
     THEN RStripPunctuation(truncated) \o Mark.ellipsis
     ELSE truncated

---------------------------------------------------------------------------
(* MemoryManager *)

\* the row get_or_create_agent_state inserts
NewAgentState ==
  [current_stage |-> Stranger,
   key_memories |-> <<>>,
   user_traits |-> EmptyDict,
   conversation_topics |-> <<>>]

\* the memory of the first strong emotion, if any
EmotionMemories(emotions) ==
  LET strong == {i \in 1..Len(emotions) : InList(emotions[i], strong_emotions)}
  IN IF strong = {} THEN <<>>
     ELSE <<MemoryText.emotion_prefix
            \o emotions[CHOOSE i \in strong : \A j \in strong : i <= j]
            \o MemoryText.emotion_suffix>>

\* the memory of the first important keyword present in either text
KeywordMemories(user_input, agent_response) ==
  LET present == {k \in 1..Len(important_keywords) :
                    \/ Contains(user_input, important_keywords[k])
                    \/ Contains(agent_response, important_keywords[k])}
  IN IF present = {} THEN <<>>
     ELSE LET keyword == important_keywords[CHOOSE k \in present : \A j \in present : k <= j]
              sentences == Split(user_input \o Mark.space \o agent_response)
              good == {i \in 1..Len(sentences) :
                         /\ Contains(sentences[i], keyword)
                         /\ Len(Strip(sentences[i])) > MinSentenceLen}
          IN IF good = {} THEN <<>>
             ELSE <<MemoryText.mention_prefix
                    \o Prefix(Strip(sentences[CHOOSE i \in good : \A j \in good : i <= j]),
                              SentencePrefixLen)
                    \o Mark.ellipsis>>

\* MemoryManager._extract_key_memories
extract_key_memories(user_input, agent_response, extracted_info) ==
  LET memories == EmotionMemories(Get(extracted_info, "emotions"))
                  \o KeywordMemories(user_input, agent_response)
      kept == Prefix(memories, MaxNewMemories)
  IN [i \in 1..Len(kept) |-> Prefix(kept[i], MaxMemoryLen)]

\* variant: every item is appended, whether the list holds it or not
AppendAll(list, items) == list \o items

\* for x in items: if x not in list: list.append(x)
RECURSIVE AppendNew(_, _)
AppendNew(list, items) ==
  IF items = <<>> THEN list
  ELSE AppendNew(IF InList(Head(items), list) THEN list ELSE Append(list, Head(items)),
                 Tail(items))

\* emotion_to_trait.get(emotion) for every emotion; unmapped ones give nothing
RECURSIVE TraitsOf(_)
TraitsOf(emotions) ==
  IF emotions = <<>> THEN <<>>
  ELSE LET hit == {i \in 1..Len(emotion_to_trait) : emotion_to_trait[i][1] = Head(emotions)}
       IN (IF hit = {} THEN <<>> ELSE <<emotion_to_trait[CHOOSE i \in hit : TRUE][2]>>)
          \o TraitsOf(Tail(emotions))

\* the trait counter, 0 when the key is missing
InteractionCount(traits) ==
  IF "interaction_count" \in DOMAIN traits THEN traits["interaction_count"] ELSE 0

\* variant: a missing counter is initialised without being incremented
update_user_traits_late(traits, extracted_info) ==
  [interaction_count |->
     IF "interaction_count" \in DOMAIN traits
     THEN traits["interaction_count"] + 1 ELSE 0,
   interests |-> AppendNew(Get(traits, "interests"), Get(extracted_info, "topics")),
   personality_traits |->
     AppendNew(Get(traits, "personality_traits"),
               TraitsOf(Get(extracted_info, "emotions")))]

\* MemoryManager._update_user_traits
update_user_traits(traits, extracted_info) ==
  [interaction_count |-> InteractionCount(traits) + 1,
   interests |-> AppendNew(Get(traits, "interests"), Get(extracted_info, "topics")),
   personality_traits |->
     AppendNew(Get(traits, "personality_traits"),
               TraitsOf(Get(extracted_info, "emotions")))]

\* variant: the first 10 topics are kept instead of the last 10
update_conversation_topics_first(topics, extracted_info) ==
  Prefix(AppendNew(topics, Get(extracted_info, "topics")), MaxTopics)

\* MemoryManager._update_conversation_topics
update_conversation_topics(topics, extracted_info) ==
  LET merged == AppendNew(topics, Get(extracted_info, "topics"))
  IN IF Len(merged) > MaxTopics THEN LastN(merged, MaxTopics) ELSE merged

\* variant: the thresholds compared with <= instead of <
ThresholdStageInclusive(interaction_count) ==
  IF interaction_count <= FamiliarThreshold THEN Stranger
  ELSE IF interaction_count <= FriendlyThreshold THEN Familiar
  ELSE IF interaction_count <= IntimateThreshold THEN Friendly
  ELSE Intimate

\* the threshold cascade of _update_relationship_stage
ThresholdStage(interaction_count) ==
  IF interaction_count < FamiliarThreshold THEN Stranger
  ELSE IF interaction_count < FriendlyThreshold THEN Familiar
  ELSE IF interaction_count < IntimateThreshold THEN Friendly
  ELSE Intimate

\* variant: the memory override promotes whatever stage was computed
update_relationship_stage_any(current_stage, interaction_count, key_memories) ==
  IF Len(key_memories) > MemoryOverride /\ ThresholdStage(interaction_count) # Stranger
  THEN Intimate
  ELSE ThresholdStage(interaction_count)

\* variant: the memory override tests == 9 instead of > 8
update_relationship_stage_exact(current_stage, interaction_count, key_memories) ==
  IF Len(key_memories) = MemoryOverride + 1 /\ ThresholdStage(interaction_count) = Friendly
  THEN Intimate
  ELSE ThresholdStage(interaction_count)

\* variant: a stage once reached is kept when the computed one is earlier
update_relationship_stage_sticky(current_stage, interaction_count, key_memories) ==
  LET new_stage == IF Len(key_memories) > MemoryOverride
                      /\ ThresholdStage(interaction_count) = Friendly
                   THEN Intimate
                   ELSE ThresholdStage(interaction_count)
      rank(stage) == CHOOSE i \in 0..Len(RELATIONSHIP_STAGES) :
                       IF InList(stage, RELATIONSHIP_STAGES)
                       THEN i > 0 /\ RELATIONSHIP_STAGES[i] = stage ELSE i = 0
  IN IF rank(new_stage) > rank(current_stage) THEN new_stage ELSE current_stage

\* MemoryManager._update_relationship_stage: the stage it leaves in the row
update_relationship_stage(current_stage, interaction_count, key_memories) ==
  LET new_stage == IF Len(key_memories) > MemoryOverride
                      /\ ThresholdStage(interaction_count) = Friendly
                   THEN Intimate
                   ELSE ThresholdStage(interaction_count)
  IN IF current_stage # new_stage THEN new_stage ELSE current_stage

\* variant: the list is never cut back to the last 15
update_key_memories_uncapped(key_memories, new_memories) ==
  key_memories \o new_memories

\* the memory list update_agent_state leaves in the row
update_key_memories(key_memories, new_memories) ==
  IF new_memories = <<>> THEN key_memories
  ELSE IF Len(key_memories \o new_memories) > MaxMemories
       THEN LastN(key_memories \o new_memories, MaxMemories)
       ELSE key_memories \o new_memories

\* MemoryManager.update_agent_state up to the message-count query: the
\* row in memory after the memory, trait and topic updates.  new_memories is
\* what _extract_key_memories returned.
update_before_count(state, new_memories, extracted_info) ==
  [current_stage |-> state.current_stage,
   key_memories |-> update_key_memories(state.key_memories, new_memories),
   user_traits |-> update_user_traits(state.user_traits, extracted_info),
   conversation_topics |->
     update_conversation_topics(state.conversation_topics, extracted_info)]

\* MemoryManager.update_agent_state, completed: interaction_count is the
\* result of the message-count query
update_agent_state(state, new_memories, extracted_info, interaction_count) ==
  LET updated == update_before_count(state, new_memories, extracted_info)
  IN [updated EXCEPT !.current_stage =
        update_relationship_stage(updated.current_stage, interaction_count,
                                  updated.key_memories)]

\* what one turn computes from its inputs alone: the generate_response
\* result and the memories update_agent_state extracts from it
Turn(message, llm) ==
  LET result == generate_response(message, llm)
  IN [result |-> result,
      new_memories |-> extract_key_memories(message, result.raw_response,
                                            result.extracted_info)]

\* Turn, tabulated over the inputs the environment offers
Turns ==
  [message \in UserInputs \cup TopicInputs, llm \in LlmOutcomes \cup EmotionOutcomes |-> Turn(message, llm)]

---------------------------------------------------------------------------
(* JSON values and Python dicts of the character profile                  *)
(* A value is a record: t its type, s its text (str, int, bool), d its    *)
(* items (dict: <<key, value>> pairs in insertion order; list: pairs with *)
(* an empty key).                                                         *)

Str(text) == [t |-> "str", s |-> text, d |-> <<>>]
Number(text) == [t |-> "int", s |-> text, d |-> <<>>]
Bool(text) == [t |-> "bool", s |-> text, d |-> <<>>]
Null == [t |-> "null", s |-> <<>>, d |-> <<>>]
List(items) == [t |-> "list", s |-> <<>>, d |-> [i \in 1..Len(items) |-> <<<<>>, items[i]>>]]
Dict(pairs) == [t |-> "dict", s |-> <<>>, d |-> pairs]
\* a str that holds the JSON text of the object with these pairs
Json(pairs) == [t |-> "json", s |-> <<>>, d |-> pairs]
\* Field(...): the field has no default
Required == [t |-> "required", s |-> <<>>, d |-> <<>>]

\* key in d
Has(pairs, key) == \E i \in 1..Len(pairs) : pairs[i][1] = key

\* d[key]
Lookup(pairs, key) == pairs[CHOOSE i \in 1..Len(pairs) : pairs[i][1] = key][2]

\* d.get(key, default)
GetOr(pairs, key, default) == IF Has(pairs, key) THEN Lookup(pairs, key) ELSE default

\* d[key] = value: a key the dict holds keeps its position
Put(pairs, key, value) ==
  IF Has(pairs, key)
  THEN [i \in 1..Len(pairs) |-> IF pairs[i][1] = key THEN <<key, value>> ELSE pairs[i]]
  ELSE Append(pairs, <<key, value>>)

\* d.update(other)
RECURSIVE Update(_, _)
Update(pairs, other) ==
  IF other = <<>> THEN pairs
  ELSE Update(Put(pairs, Head(other)[1], Head(other)[2]), Tail(other))

\* the keys and the texts of json.dumps(d, ensure_ascii=False), each between
\* quotes; the punctuation and the literals null, true, false hold no keyword
RECURSIVE Dumps(_)
Dumps(pairs) ==
  IF pairs = <<>> THEN <<>>
  ELSE LET key == Head(pairs)[1]
           value == Head(pairs)[2]
       IN Mark.quote \o key \o Mark.quote
          \o (IF value.t \in {"list", "dict"} THEN Dumps(value.d) ELSE value.s)
          \o Mark.quote \o Dumps(Tail(pairs))

\* s.lower()
Lower(s) == [i \in 1..Len(s) |-> IF s[i] \in 65..90 THEN s[i] + 32 ELSE s[i]]

---------------------------------------------------------------------------
(* AgentSchemaManager: field names, keywords, schema classes *)

\* literals of str() and repr()
PyText ==
  [none |-> <<78, 111, 110, 101>>,  \* None
   apostrophe |-> <<39>>]
\* the field names of CharacterSchema and AdvancedCharacterSchema
K ==
  [name |-> <<110, 97, 109, 101>>,  \* name
   personality |-> <<112, 101, 114, 115, 111, 110, 97, 108, 105, 116, 121>>,  \* personality
   gender |-> <<103, 101, 110, 100, 101, 114>>,  \* gender
   age |-> <<97, 103, 101>>,  \* age
   race |-> <<114, 97, 99, 101>>,  \* race
   appearance |-> <<97, 112, 112, 101, 97, 114, 97, 110, 99, 101>>,  \* appearance
   clothing |-> <<99, 108, 111, 116, 104, 105, 110, 103>>,  \* clothing
   traits |-> <<116, 114, 97, 105, 116, 115>>,  \* traits
   skills |-> <<115, 107, 105, 108, 108, 115>>,  \* skills
   weapon |-> <<119, 101, 97, 112, 111, 110>>,  \* weapon
   teammates |-> <<116, 101, 97, 109, 109, 97, 116, 101, 115>>,  \* teammates
   goals |-> <<103, 111, 97, 108, 115>>,  \* goals
   quirks |-> <<113, 117, 105, 114, 107, 115>>,  \* quirks
   backstory |-> <<98, 97, 99, 107, 115, 116, 111, 114, 121>>,  \* backstory
   custom_fields |-> <<99, 117, 115, 116, 111, 109, 95, 102, 105, 101, 108, 100, 115>>]  \* custom_fields
\* the keys validate_and_normalize adds to a profile
Meta ==
  [schema_type |-> <<95, 115, 99, 104, 101, 109, 97, 95, 116, 121, 112, 101>>,  \* _schema_type
   validated |-> <<95, 118, 97, 108, 105, 100, 97, 116, 101, 100>>,  \* _validated
   validation_warning |-> <<95, 118, 97, 108, 105, 100, 97, 116, 105, 111, 110, 95, 119, 97, 114, 110, 105, 110, 103>>,  \* _validation_warning
   error |-> <<95, 101, 114, 114, 111, 114>>,  \* _error
   raw |-> <<114, 97, 119>>,  \* raw
   content |-> <<99, 111, 110, 116, 101, 110, 116>>]  \* content

\* the agent types of schema_registry, and the type of the raw fallback
AgentType ==
  [default |-> <<100, 101, 102, 97, 117, 108, 116>>,  \* default
   fantasy |-> <<102, 97, 110, 116, 97, 115, 121>>,  \* fantasy
   sci_fi |-> <<115, 99, 105, 95, 102, 105>>,  \* sci_fi
   modern |-> <<109, 111, 100, 101, 114, 110>>,  \* modern
   historical |-> <<104, 105, 115, 116, 111, 114, 105, 99, 97, 108>>,  \* historical
   raw |-> <<114, 97, 119>>]  \* raw
\* values validate_and_normalize writes: the stub's personality, str(True), str(False), and a text that stands for str(exception)
SchemaText ==
  [parse_failed |-> <<37197, 32622, 35299, 26512, 22833, 36133>>,  \* 配置解析失败
   true_text |-> <<84, 114, 117, 101>>,  \* True
   false_text |-> <<70, 97, 108, 115, 101>>,  \* False
   error_text |-> <<118, 97, 108, 105, 100, 97, 116, 105, 111, 110, 32, 101, 114, 114, 111, 114>>]  \* validation error
\* literals of build_system_prompt and of the user prompt of generate_response
PromptText ==
  [unknown_character |-> <<26410, 30693, 35282, 33394>>,  \* 未知角色
   comma_space |-> <<44, 32>>,  \* ,
   role_heading |-> <<35, 32, 35282, 33394, 35774, 23450>>,  \* # 角色设定
   user_message_label |-> <<29992, 25143, 28040, 24687, 65306>>,  \* 用户消息：
   reply_request |-> <<35831, 20197>>]  \* 请以
CharacterGender ==
  [male |-> <<30007, 24615>>,  \* 男性
   female |-> <<22899, 24615>>,  \* 女性
   other |-> <<20854, 20182>>,  \* 其他
   unknown |-> <<26410, 30693>>]  \* 未知

fantasy_keywords ==
  <<<<39764, 27861>>, <<21073>>, <<39569, 22763>>, <<31934, 28789>>, <<40857>>, <<39764, 29579>>, <<21191, 32773>>>>
  \* 魔法 剑 骑士 精灵 龙 魔王 勇者
scifi_keywords ==
  <<<<31185, 25216>>, <<22826, 31354>>, <<26426, 22120, 20154>>, <<65, 73>>, <<26410, 26469>>, <<39134, 33337>>, <<26143, 38469>>>>
  \* 科技 太空 机器人 AI 未来 飞船 星际
modern_keywords ==
  <<<<29616, 20195>>, <<37117, 24066>>, <<23398, 26657>>, <<32844, 22330>>, <<26085, 24120>>>>
  \* 现代 都市 学校 职场 日常
historical_keywords ==
  <<<<21382, 21490>>, <<21476, 20195>>, <<29579, 26397>>, <<30343, 24093>>, <<23558, 20891>>>>
  \* 历史 古代 王朝 皇帝 将军

field_mapping ==
  <<<<<<22995, 21517>>, K.name>>,
    <<<<21517, 23383>>, K.name>>,
    <<<<35282, 33394, 21517>>, K.name>>,
    <<<<24615, 26684>>, K.personality>>,
    <<<<20010, 24615>>, K.personality>>,
    <<<<24615, 21035>>, K.gender>>,
    <<<<115, 101, 120>>, K.gender>>,
    <<<<24180, 40836>>, K.age>>,
    <<<<24180, 32000>>, K.age>>,
    <<<<31181, 26063>>, K.race>>,
    <<<<29289, 31181>>, K.race>>,
    <<<<22806, 35980>>, K.appearance>>,
    <<<<38271, 30456>>, K.appearance>>,
    <<<<22806, 34920>>, K.appearance>>,
    <<<<26381, 35013>>, K.clothing>>,
    <<<<34915, 30528>>, K.clothing>>,
    <<<<25171, 25198>>, K.clothing>>,
    <<<<29305, 36136>>, K.traits>>,
    <<<<29305, 28857>>, K.traits>>,
    <<<<25216, 33021>>, K.skills>>,
    <<<<33021, 21147>>, K.skills>>,
    <<<<27494, 22120>>, K.weapon>>,
    <<<<35013, 22791>>, K.weapon>>,
    <<<<38431, 21451>>, K.teammates>>,
    <<<<21516, 20276>>, K.teammates>>,
    <<<<20249, 20276>>, K.teammates>>,
    <<<<30446, 26631>>, K.goals>>,
    <<<<30446, 30340>>, K.goals>>,
    <<<<24618, 30294>>, K.quirks>>,
    <<<<20064, 24815>>, K.quirks>>,
    <<<<32972, 26223>>, K.backstory>>,
    <<<<25925, 20107>>, K.backstory>>,
    <<<<32463, 21382>>, K.backstory>>,
    <<<<112, 101, 114, 115, 111, 110, 97, 108, 105, 116, 121, 95, 116, 114, 97, 105, 116, 115>>, K.traits>>,
    <<<<97, 98, 105, 108, 105, 116, 105, 101, 115>>, K.skills>>,
    <<<<99, 111, 109, 112, 97, 110, 105, 111, 110, 115>>, K.teammates>>,
    <<<<104, 105, 115, 116, 111, 114, 121>>, K.backstory>>,
    <<<<97, 112, 112, 97, 114, 101, 108>>, K.clothing>>,
    <<<<108, 111, 111, 107, 115>>, K.appearance>>>>
  \* 姓名:name 名字:name 角色名:name 性格:personality 个性:personality 性别:gender sex:gender 年龄:age 年紀:age 种族:race 物种:race 外貌:appearance 长相:appearance 外表:appearance 服装:clothing 衣着:clothing 打扮:clothing 特质:traits 特点:traits 技能:skills 能力:skills 武器:weapon 装备:weapon 队友:teammates 同伴:teammates 伙伴:teammates 目标:goals 目的:goals 怪癖:quirks 习惯:quirks 背景:backstory 故事:backstory 经历:backstory personality_traits:traits abilities:skills companions:teammates history:backstory apparel:clothing looks:appearance

\* class CharacterSchema: field, type, default
CharacterSchema ==
  <<<<<<110, 97, 109, 101>>, "str", Required>>,
    <<<<112, 101, 114, 115, 111, 110, 97, 108, 105, 116, 121>>, "str", Required>>,
    <<<<103, 101, 110, 100, 101, 114>>, "gender", Str(CharacterGender.unknown)>>,
    <<<<97, 103, 101>>, "str_opt", Null>>,
    <<<<114, 97, 99, 101>>, "str_opt", Null>>,
    <<<<97, 112, 112, 101, 97, 114, 97, 110, 99, 101>>, "str_opt", Null>>,
    <<<<99, 108, 111, 116, 104, 105, 110, 103>>, "str_opt", Null>>>>
  \* name personality gender age race appearance clothing
\* class AdvancedCharacterSchema(CharacterSchema): the fields it adds
AdvancedFields ==
  <<<<<<116, 114, 97, 105, 116, 115>>, "list_str", List(<<>>)>>,
    <<<<115, 107, 105, 108, 108, 115>>, "list_str", List(<<>>)>>,
    <<<<119, 101, 97, 112, 111, 110>>, "dict_opt", Null>>,
    <<<<116, 101, 97, 109, 109, 97, 116, 101, 115>>, "list_dict_opt", Null>>,
    <<<<103, 111, 97, 108, 115>>, "str_opt", Null>>,
    <<<<113, 117, 105, 114, 107, 115>>, "list_str_opt", List(<<>>)>>,
    <<<<98, 97, 99, 107, 115, 116, 111, 114, 121>>, "str_opt", Null>>,
    <<<<99, 117, 115, 116, 111, 109, 95, 102, 105, 101, 108, 100, 115>>, "dict", Dict(<<>>)>>>>
  \* traits skills weapon teammates goals quirks backstory custom_fields
\* the fields the classes of the four factory methods add:
\* FantasyCharacterSchema, SciFiCharacterSchema, ModernCharacterSchema,
\* HistoricalCharacterSchema
VariantFields ==
  [fantasy |->  \* magic_system kingdom title alignment
     <<<<<<109, 97, 103, 105, 99, 95, 115, 121, 115, 116, 101, 109>>, "str_opt", Null>>,
       <<<<107, 105, 110, 103, 100, 111, 109>>, "str_opt", Null>>,
       <<<<116, 105, 116, 108, 101>>, "str_opt", Null>>,
       <<<<97, 108, 105, 103, 110, 109, 101, 110, 116>>, "str_opt", Null>>>>,
   sci_fi |->  \* tech_level organization cybernetics spaceship
     <<<<<<116, 101, 99, 104, 95, 108, 101, 118, 101, 108>>, "str_opt", Null>>,
       <<<<111, 114, 103, 97, 110, 105, 122, 97, 116, 105, 111, 110>>, "str_opt", Null>>,
       <<<<99, 121, 98, 101, 114, 110, 101, 116, 105, 99, 115>>, "list_str_opt", List(<<>>)>>,
       <<<<115, 112, 97, 99, 101, 115, 104, 105, 112>>, "dict_opt", Null>>>>,
   modern |->  \* occupation education family hobbies
     <<<<<<111, 99, 99, 117, 112, 97, 116, 105, 111, 110>>, "str_opt", Null>>,
       <<<<101, 100, 117, 99, 97, 116, 105, 111, 110>>, "str_opt", Null>>,
       <<<<102, 97, 109, 105, 108, 121>>, "list_str_opt", List(<<>>)>>,
       <<<<104, 111, 98, 98, 105, 101, 115>>, "list_str_opt", List(<<>>)>>>>,
   historical |->  \* era dynasty social_class historical_facts
     <<<<<<101, 114, 97>>, "str_opt", Null>>,
       <<<<100, 121, 110, 97, 115, 116, 121>>, "str_opt", Null>>,
       <<<<115, 111, 99, 105, 97, 108, 95, 99, 108, 97, 115, 115>>, "str_opt", Null>>,
       <<<<104, 105, 115, 116, 111, 114, 105, 99, 97, 108, 95, 102, 97, 99, 116, 115>>, "list_str_opt", List(<<>>)>>>>]

stage_descriptions ==
  <<<<Stranger,  \* 警惕、正式、保持距离，对用户持有敌意或怀疑
      <<35686, 24789, 12289, 27491, 24335, 12289, 20445, 25345, 36317, 31163, 65292, 23545, 29992, 25143, 25345, 26377, 25932, 24847, 25110, 24576, 30097>>>>,
    <<Familiar,  \* 稍微放松，但仍保持礼貌，开始对用户有所了解
      <<31245, 24494, 25918, 26494, 65292, 20294, 20173, 20445, 25345, 31036, 35980, 65292, 24320, 22987, 23545, 29992, 25143, 26377, 25152, 20102, 35299>>>>,
    <<Friendly,  \* 更加信任，愿意分享想法，可能有复杂的感情
      <<26356, 21152, 20449, 20219, 65292, 24895, 24847, 20998, 20139, 24819, 27861, 65292, 21487, 33021, 26377, 22797, 26434, 30340, 24863, 24773>>>>,
    <<Intimate,  \* 非常信任，可能展现脆弱一面，关系深厚
      <<38750, 24120, 20449, 20219, 65292, 21487, 33021, 23637, 29616, 33030, 24369, 19968, 38754, 65292, 20851, 31995, 28145, 21402>>>>>>

\* keys and texts of the character profiles the environment offers
Sample ==
  [agent_name |-> <<33406, 29747>>,  \* 艾琳
   lina |-> <<33673, 23068>>,  \* 莉娜
   blank |-> <<32>>,
   gentle |-> <<28201, 26580>>,  \* 温柔
   elf |-> <<31934, 28789>>,  \* 精灵
   robot |-> <<26426, 22120, 20154>>,  \* 机器人
   city_dweller |-> <<37117, 24066, 20154>>,  \* 都市人
   ancient |-> <<21476, 20195, 20154>>,  \* 古代人
   archery |-> <<23556, 31661>>,  \* 射箭
   five |-> <<53>>,  \* 5
   alias_name_key |-> <<22995, 21517>>,  \* 姓名
   demon_king_key |-> <<39764, 29579>>,  \* 魔王
   motto_key |-> <<109, 111, 116, 116, 111>>,  \* motto
   motto |-> <<27704, 19981, 25918, 24323>>,  \* 永不放弃
   pet_key |-> <<112, 101, 116>>,  \* pet
   cat |-> <<29483>>,  \* 猫
   shadow |-> <<24433>>,  \* 影
   elf_text |-> <<19968, 20301, 31934, 28789>>]  \* 一位精灵

\* sep.join(items)
RECURSIVE JoinWith(_, _)
JoinWith(sep, items) ==
  IF items = <<>> THEN <<>>
  ELSE IF Len(items) = 1 THEN Head(items)
  ELSE Head(items) \o sep \o JoinWith(sep, Tail(items))

\* repr(value)
RECURSIVE Repr(_)
Repr(value) ==
  CASE value.t = "str" -> PyText.apostrophe \o value.s \o PyText.apostrophe
    [] value.t = "null" -> PyText.none
    [] value.t = "list" ->
         <<91>> \o JoinWith(PromptText.comma_space, [i \in 1..Len(value.d) |-> Repr(value.d[i][2])]) \o <<93>>
    [] value.t = "dict" ->
         <<123>> \o JoinWith(PromptText.comma_space,
                     [i \in 1..Len(value.d) |->
                        PyText.apostrophe \o value.d[i][1] \o PyText.apostrophe \o <<58, 32>> \o Repr(value.d[i][2])])
         \o <<125>>
    [] OTHER -> value.s

\* str(value), and the text of {value} in an f-string
Format(value) == IF value.t = "str" THEN value.s ELSE Repr(value)

---------------------------------------------------------------------------
(* AgentSchemaManager *)

\* AgentSchemaManager._detect_agent_type
detect_agent_type(profile) ==
  LET content_str == Lower(Dumps(profile))
  IN IF AnyIn(fantasy_keywords, content_str) THEN AgentType.fantasy
     ELSE IF AnyIn(scifi_keywords, content_str) THEN AgentType.sci_fi
     ELSE IF AnyIn(modern_keywords, content_str) THEN AgentType.modern
     ELSE IF AnyIn(historical_keywords, content_str) THEN AgentType.historical
     ELSE AgentType.default

\* the loop of _normalize_field_names: the key's entry of field_mapping if
\* it has one, else the key
RECURSIVE NormalizeInto(_, _)
NormalizeInto(normalized, items) ==
  IF items = <<>> THEN normalized
  ELSE LET key == Head(items)[1]
           hit == {i \in 1..Len(field_mapping) : field_mapping[i][1] = key}
           mapped == IF hit = {} THEN key ELSE field_mapping[CHOOSE i \in hit : TRUE][2]
       IN NormalizeInto(Put(normalized, mapped, Head(items)[2]), Tail(items))

\* AgentSchemaManager._normalize_field_names
normalize_field_names(profile) == NormalizeInto(<<>>, profile)

\* the fields of the schema class registered for an agent type
SchemaFields(agent_type) ==
  CharacterSchema \o AdvancedFields
  \o (IF agent_type = AgentType.fantasy THEN VariantFields.fantasy
      ELSE IF agent_type = AgentType.sci_fi THEN VariantFields.sci_fi
      ELSE IF agent_type = AgentType.modern THEN VariantFields.modern
      ELSE IF agent_type = AgentType.historical THEN VariantFields.historical
      ELSE <<>>)

\* schema_registry[agent_type], called when callable.  The four factory
\* methods return their class.  The "default" entry is the class
\* AdvancedCharacterSchema itself: a class is callable, so it is called
\* without arguments, and its required fields name and personality are
\* missing: the constructor raises.
SchemaClass(agent_type) ==
  [raised |-> agent_type = AgentType.default, fields |-> SchemaFields(agent_type)]

\* whether a value has the type a field declares (no coercion of other
\* types to str)
ValidValue(kind, value) ==
  LET all_of(type) == \A i \in 1..Len(value.d) : value.d[i][2].t = type
  IN CASE kind = "str" -> value.t = "str"
       [] kind = "str_opt" -> value.t \in {"str", "null"}
       [] kind = "gender" -> value.t = "null" \/ (value.t = "str" /\ value.s \in {CharacterGender[g] : g \in DOMAIN CharacterGender})
       [] kind = "list_str" -> value.t = "list" /\ all_of("str")
       [] kind = "list_str_opt" -> value.t = "null" \/ (value.t = "list" /\ all_of("str"))
       [] kind = "dict_opt" -> value.t \in {"dict", "null"}
       [] kind = "list_dict_opt" -> value.t = "null" \/ (value.t = "list" /\ all_of("dict"))
       [] OTHER -> value.t = "dict"

\* one field of schema_class(**normalized_profile): its type, and for name
\* the validator name_not_empty
FieldOk(field, normalized) ==
  IF Has(normalized, field[1])
  THEN /\ ValidValue(field[2], Lookup(normalized, field[1]))
       /\ field[1] = K.name => Strip(Lookup(normalized, field[1]).s) # <<>>
  ELSE field[3] # Required

\* schema_class(**normalized_profile) does not raise
Validates(fields, normalized) ==
  \A i \in 1..Len(fields) : FieldOk(fields[i], normalized)

\* the value a validated field holds: what was given (name stripped by its
\* validator) or the default
FieldValue(field, normalized) ==
  IF Has(normalized, field[1])
  THEN IF field[1] = K.name
       THEN Str(Strip(Lookup(normalized, field[1]).s))
       ELSE Lookup(normalized, field[1])
  ELSE field[3]

\* exclude_none=True
RECURSIVE ExcludeNone(_)
ExcludeNone(pairs) ==
  IF pairs = <<>> THEN <<>>
  ELSE (IF Head(pairs)[2].t = "null" THEN <<>> ELSE <<Head(pairs)>>)
       \o ExcludeNone(Tail(pairs))

\* the keys of normalized that are no field of the schema (Config.extra =
\* "allow" keeps them on the instance)
RECURSIVE Extras(_, _)
Extras(fields, normalized) ==
  IF normalized = <<>> THEN <<>>
  ELSE (IF \E i \in 1..Len(fields) : fields[i][1] = Head(normalized)[1]
        THEN <<>> ELSE <<Head(normalized)>>)
       \o Extras(fields, Tail(normalized))

\* validated.dict(exclude_none=True): the declared fields in declaration
\* order, then the extra keys
ModelDict(fields, normalized) ==
  ExcludeNone([i \in 1..Len(fields) |-> <<fields[i][1], FieldValue(fields[i], normalized)>>]
              \o Extras(fields, normalized))

\* the profile the parsing steps of validate_and_normalize produce
ParseProfile(raw_profile) ==
  CASE raw_profile.t \in {"dict", "json"} -> raw_profile.d
    [] raw_profile.t = "str" -> <<<<Meta.raw, raw_profile>>>>
    [] OTHER -> <<<<Meta.content, Str(Format(raw_profile))>>>>

\* AgentSchemaManager.validate_and_normalize
validate_and_normalize(agent_name, raw_profile) ==
  LET profile == ParseProfile(raw_profile)
      agent_type == detect_agent_type(profile)
      schema == SchemaClass(agent_type)
      normalized == normalize_field_names(profile)
  IN IF schema.raised
     THEN <<<<K.name, Str(agent_name)>>, <<K.personality, Str(SchemaText.parse_failed)>>,
            <<Meta.error, Str(SchemaText.error_text)>>, <<Meta.validated, Bool(SchemaText.false_text)>>>>
     ELSE IF Validates(schema.fields, normalized)
          THEN Put(Put(Update(ModelDict(schema.fields, normalized),
                              GetOr(normalized, K.custom_fields, Dict(<<>>)).d),
                       Meta.schema_type, Str(agent_type)),
                   Meta.validated, Bool(SchemaText.true_text))
          ELSE Put(Put(Put(profile, Meta.validation_warning, Str(SchemaText.error_text)),
                       Meta.schema_type, Str(AgentType.raw)),
                   Meta.validated, Bool(SchemaText.false_text))

---------------------------------------------------------------------------
(* CharacterAgent: the character profile and the system prompt *)

\* ', '.join(value) raises TypeError: value is not iterable, or one of its
\* items is no str
JoinRaises(value) ==
  \/ value.t \in {"null", "int", "bool"}
  \/ value.t = "list" /\ \E i \in 1..Len(value.d) : value.d[i][2].t # "str"

\* ', '.join(value) of a list of str, of a str (its characters) or of a
\* dict (its keys)
JoinText(value) ==
  JoinWith(PromptText.comma_space,
           IF value.t = "str" THEN [i \in 1..Len(value.s) |-> <<value.s[i]>>]
           ELSE IF value.t = "dict" THEN [i \in 1..Len(value.d) |-> value.d[i][1]]
           ELSE [i \in 1..Len(value.d) |-> value.d[i][2].s])

\* the result of build_system_prompt for a call that raised
PromptRaised ==
  [raised |-> TRUE, name |-> <<>>, personality |-> <<>>, gender |-> <<>>,
   age |-> <<>>, appearance |-> <<>>, clothing |-> <<>>, skills |-> <<>>,
   traits |-> <<>>, stage |-> <<>>, stage_description |-> <<>>,
   memories |-> <<>>]

\* CharacterAgent.build_system_prompt: the texts the f-string puts in its
\* slots (the fixed text around them, the background story and the output
\* format come from the agent's configuration and are left out)
build_system_prompt(profile, stage, agent_state) ==
  LET skills == GetOr(profile, K.skills, List(<<>>))
      traits == GetOr(profile, K.traits, List(<<>>))
      slot(key) == Format(GetOr(profile, key, Str(<<>>)))
  IN IF JoinRaises(skills) \/ JoinRaises(traits)
     THEN PromptRaised
     ELSE [raised |-> FALSE,
           name |-> Format(GetOr(profile, K.name, Str(PromptText.unknown_character))),
           personality |-> slot(K.personality),
           gender |-> slot(K.gender),
           age |-> slot(K.age),
           appearance |-> slot(K.appearance),
           clothing |-> slot(K.clothing),
           skills |-> JoinText(skills),
           traits |-> JoinText(traits),
           stage |-> stage,
           stage_description |-> GetOr(stage_descriptions, stage, <<>>),
           memories |-> LastN(agent_state.key_memories, 3)]

\* no CharacterAgent is under construction
NoAgent ==
  [step |-> "none", raw_profile |-> Null, character_profile |-> <<>>,
   again |-> <<>>, prompt |-> PromptRaised]

\* no text function has been called
NoCall ==
  [fn |-> "none", done |-> FALSE, text |-> <<>>, user_input |-> <<>>,
   max_length |-> 0, result |-> <<>>]

---------------------------------------------------------------------------
(* Database queries *)

HistoryLimit == 10   \* get_conversation_history(conversation.id, limit=10)
HistoryWindow == 5   \* conversation_history[-5:]
NoConversation == 0   \* conversation_id: Optional[int] = None
ConvIds == 1..MaxConvs
\* a conversation of the same user with another persona (its agent_id is
\* not the one of the pair); the user started it before
OtherConversation == MaxConvs + 1

\* the id the database gives the next Conversation row (ids are opaque
\* handles: the model reuses the smallest id no row holds)
NewConversationId ==
  CHOOSE c \in ConvIds \ conversations : \A d \in ConvIds \ conversations : c <= d

RECURSIVE SumMessages(_, _)
SumMessages(msgs, convs) ==
  IF convs = {} THEN 0
  ELSE LET c == CHOOSE c \in convs : TRUE
       IN msgs[c] + SumMessages(msgs, convs \ {c})

\* db.query(Message).join(Conversation).filter(user_id, agent_id).count()
CountMessages(msgs, convs) == SumMessages(msgs, convs)

\* MemoryManager.get_or_create_agent_state: the table after the call
get_or_create_agent_state(rows) ==
  IF rows = <<>> THEN <<NewAgentState>> ELSE rows

\* the row the pair's queries return (.first()), as get_or_create sees it
PairState == Head(get_or_create_agent_state(agent_states))

---------------------------------------------------------------------------
(* Operations *)

NoCount == -1   \* the count query did not complete

Idle ==
  [op |-> "none", status |-> "returned", llm_failed |-> FALSE, db |-> "none",
   result |-> EmptyDict, interaction_count |-> NoCount, returned |-> EmptyDict]

\* the requests that may be in process_chat at the same time, each with a
\* database session of its own (get_db)
Sessions == {"a", "b"}

\* a request that is not in process_chat.  turns and overlaps record what the
\* request did so far: the turns it completed, and how many of them wrote a
\* row that another request had written since this one read it.
IdleSession ==
  [pc |-> "idle", cid |-> NoConversation, message |-> <<>>, llm |-> LlmFails,
   row |-> 0, snapshot |-> NewAgentState, stale |-> FALSE,
   turns |-> 0, overlaps |-> 0]

\* variant: the except branch commits instead of rolling back
rollback_missing(committed, pending) == pending

\* self.db.rollback() in the except branch of step 8: the rows as last
\* committed; what the session held in memory is discarded
rollback(committed, pending) == committed

\* ChatService.process_chat, one whole call.  add_message and
\* get_or_create_agent_state commit on their own; the state update is
\* committed by update_agent_state and rolled back when step 8 raises.
ProcessChat(conversation_id, message, llm, db) ==
  LET \* get_conversation filters on the id and on user_id, not on agent_id
      found == /\ conversation_id # NoConversation
               /\ conversation_id \in conversations \cup {OtherConversation}
      cid == IF found THEN conversation_id ELSE NewConversationId
      convs1 == IF cid = OtherConversation THEN conversations ELSE conversations \cup {cid}
      msgs1 == [messages EXCEPT ![cid] = @ + 1]
      rows1 == get_or_create_agent_state(agent_states)
      turn == Turns[message, llm]
      msgs2 == [msgs1 EXCEPT ![cid] = @ + 1]
      count == CountMessages(msgs2, convs1)
      pending == update_before_count(Head(rows1), turn.new_memories,
                                     turn.result.extracted_info)
      row2 == update_agent_state(Head(rows1), turn.new_memories,
                                 turn.result.extracted_info, count)
      raised == [op |-> "process_chat", status |-> "raised",
                 llm_failed |-> llm.failed, db |-> db, result |-> turn.result,
                 interaction_count |-> NoCount, returned |-> EmptyDict]
  IN /\ found \/ ConvIds \ conversations # {}
     /\ conversations' = convs1
     /\ UNCHANGED <<sessions, agent, call>>
     /\ \/ /\ db = "save_fails"
           /\ messages' = msgs1
           /\ agent_states' = rollback(rows1, rows1)
           /\ last' = raised
        \/ /\ db = "count_fails"
           /\ messages' = msgs2
           /\ agent_states' = rollback(rows1, <<pending>> \o Tail(rows1))
           /\ last' = raised
        \/ /\ db = "ok"
           /\ messages' = msgs2
           /\ agent_states' = <<row2>> \o Tail(rows1)
           /\ last' = [op |-> "process_chat", status |-> "returned",
                       llm_failed |-> llm.failed, db |-> db, result |-> turn.result,
                       interaction_count |-> count,
                       returned |-> [response |-> turn.result.response,
                                     current_stage |-> row2.current_stage]]

\* ConversationService.create_conversation, called by the API
CreateConversation ==
  /\ ConvIds \ conversations # {}
  /\ conversations' = conversations \cup {NewConversationId}
  /\ last' = [Idle EXCEPT !.op = "create_conversation"]
  /\ UNCHANGED <<messages, agent_states, sessions, agent, call>>

\* ConversationService.delete_conversation
DeleteConversation(conversation_id) ==
  \/ /\ conversation_id \notin conversations
     /\ last' = [Idle EXCEPT !.op = "delete_conversation", !.status = "not_found"]
     /\ UNCHANGED <<conversations, messages, agent_states, sessions, agent, call>>
  \/ /\ conversation_id \in conversations
     /\ messages' = [messages EXCEPT ![conversation_id] = 0]
     /\ conversations' = conversations \ {conversation_id}
     /\ last' = [Idle EXCEPT !.op = "delete_conversation"]
     /\ UNCHANGED <<agent_states, sessions, agent, call>>

---------------------------------------------------------------------------
(* Specifications *)

Init ==
  /\ conversations = {}
  /\ messages = [c \in ConvIds \cup {OtherConversation} |-> 0]
  /\ agent_states = <<>>
  /\ last = Idle
  /\ sessions = [p \in Sessions |-> IdleSession]
  /\ agent = NoAgent
  /\ call = NoCall

\* every operation, any conversation id, every outcome
Next ==
  \/ \E conversation_id \in {NoConversation} \cup ConvIds, message \in UserInputs,
        llm \in LlmOutcomes, db \in DbOutcomes :
       /\ CountMessages(messages, conversations) + 2 <= MaxMessages
       /\ InteractionCount(PairState.user_traits) < MaxInteractions
       /\ ProcessChat(conversation_id, message, llm, db)
  \/ CreateConversation
  \/ \E conversation_id \in ConvIds : DeleteConversation(conversation_id)

Spec == Init /\ [][Next]_vars

\* the conversation a user with a single conversation continues
CurrentConversation ==
  IF conversations = {} THEN NoConversation ELSE CHOOSE c \in conversations : TRUE

\* one conversation at a time, which the user continues or deletes
SingleChat ==
  \E message \in DeepUserInputs, llm \in DeepLlmOutcomes, db \in DbOutcomes :
    /\ CountMessages(messages, conversations) + 2 <= DeepMaxMessages
    /\ InteractionCount(PairState.user_traits) < DeepMaxInteractions
    /\ ProcessChat(CurrentConversation, message, llm, db)

NextSingle ==
  \/ SingleChat
  \/ \E conversation_id \in conversations : DeleteConversation(conversation_id)

SpecSingle == Init /\ [][NextSingle]_vars

\* serialized turns of the pair, no conversation is ever deleted
NextSerial == SingleChat

SpecSerial == Init /\ [][NextSerial]_vars

\* a pair whose AgentState row was written outside this code with a stage
\* name that is not one of the four (current_stage is an unconstrained
\* String(50) column, and AgentConfig.stages lets a persona name its own)
LegacyStage == <<26410, 30693>>  \* 未知
InitLegacy ==
  /\ conversations = {}
  /\ messages = [c \in ConvIds \cup {OtherConversation} |-> 0]
  /\ agent_states = <<[NewAgentState EXCEPT !.current_stage = LegacyStage]>>
  /\ last = Idle
  /\ sessions = [p \in Sessions |-> IdleSession]
  /\ agent = NoAgent
  /\ call = NoCall

SpecLegacy == InitLegacy /\ [][Next]_vars

\* serialized turns whose messages name many topics
NextTopics ==
  \E message \in TopicInputs, llm \in DeepLlmOutcomes, db \in DbOutcomes :
    /\ CountMessages(messages, conversations) + 2 <= TopicMaxMessages
    /\ InteractionCount(PairState.user_traits) < TopicMaxInteractions
    /\ ProcessChat(CurrentConversation, message, llm, db)

SpecTopics == Init /\ [][NextTopics]_vars

\* serialized turns whose replies show emotions
NextTraits ==
  \E message \in {UserText.plain, UserText.sword}, llm \in EmotionOutcomes,
     db \in DbOutcomes :
    /\ CountMessages(messages, conversations) + 2 <= TraitMaxMessages
    /\ InteractionCount(PairState.user_traits) < TraitMaxInteractions
    /\ ProcessChat(CurrentConversation, message, llm, db)

SpecTraits == Init /\ [][NextTraits]_vars

\* serialized turns of the pair in which the caller passes any conversation
\* id of the user, the one of the conversation with another persona included
NextForeign ==
  \E conversation_id \in {NoConversation, OtherConversation} \cup ConvIds,
     message \in DeepUserInputs, llm \in DeepLlmOutcomes, db \in DbOutcomes :
    /\ CountMessages(messages, conversations \cup {OtherConversation}) + 2
         <= ForeignMaxMessages
    /\ InteractionCount(PairState.user_traits) < ForeignMaxInteractions
    /\ ProcessChat(conversation_id, message, llm, db)

SpecForeign == Init /\ [][NextForeign]_vars

\* serialized turns that each leave memories: the user thanks, the reply
\* shows fear or conflict
NextMemories ==
  \E llm \in {LlmReturns(LlmText.fear_reply), LlmReturns(LlmText.torn_reply)},
     db \in DbOutcomes :
    /\ CountMessages(messages, conversations) + 2 <= MemoryMaxMessages
    /\ InteractionCount(PairState.user_traits) < MemoryMaxInteractions
    /\ ProcessChat(CurrentConversation, UserText.thanks, llm, db)

SpecMemories == Init /\ [][NextMemories]_vars

---------------------------------------------------------------------------
(* process_chat, step by step, for requests that run at the same time.    *)
(* A step ends where the request's session commits or has run a query;   *)
(* every database call succeeds.                                          *)

RECURSIVE SumOver(_, _)
SumOver(f, S) ==
  IF S = {} THEN 0
  ELSE LET x == CHOOSE x \in S : TRUE IN f[x] + SumOver(f, S \ {x})

\* turns begun so far: the completed ones and the ones under way
TurnsBegun ==
  SumOver([p \in Sessions |-> sessions[p].turns], Sessions)
  + Cardinality({p \in Sessions : sessions[p].pc # "idle"})

\* steps 1 to 3: the conversation is looked up or created and the user's
\* message is stored (add_message commits)
Begin(p, conversation_id, message, llm) ==
  LET found == conversation_id # NoConversation /\ conversation_id \in conversations
      cid == IF found THEN conversation_id ELSE NewConversationId
  IN /\ sessions[p].pc = "idle"
     /\ TurnsBegun < OverlapMaxTurns
     /\ found \/ ConvIds \ conversations # {}
     /\ conversations' = conversations \cup {cid}
     /\ messages' = [messages EXCEPT ![cid] = @ + 1]
     /\ sessions' = [sessions EXCEPT ![p] =
          [@ EXCEPT !.pc = "query", !.cid = cid, !.message = message, !.llm = llm]]
     /\ UNCHANGED <<agent_states, last, agent, call>>

\* step 5, get_or_create_agent_state: the query for the pair's row
QueryState(p) ==
  /\ sessions[p].pc = "query"
  /\ sessions' = [sessions EXCEPT ![p].pc =
       IF agent_states = <<>> THEN "insert" ELSE "generate"]
  /\ UNCHANGED <<conversations, messages, agent_states, last, agent, call>>

\* step 5, get_or_create_agent_state: no row was found, one is added and
\* committed
InsertState(p) ==
  /\ sessions[p].pc = "insert"
  /\ agent_states' = Append(agent_states, NewAgentState)
  /\ sessions' = [sessions EXCEPT ![p].pc = "generate"]
  /\ UNCHANGED <<conversations, messages, last, agent, call>>

\* step 7 and the first half of step 8: the reply is generated and stored
\* (add_message commits, which expires what the session had loaded)
Generate(p) ==
  /\ sessions[p].pc = "generate"
  /\ messages' = [messages EXCEPT ![sessions[p].cid] = @ + 1]
  /\ sessions' = [sessions EXCEPT ![p].pc = "read"]
  /\ UNCHANGED <<conversations, agent_states, last, agent, call>>

\* update_agent_state, its get_or_create_agent_state: the session loads
\* the pair's row as committed now (.first() of an unordered query)
ReadState(p) ==
  /\ sessions[p].pc = "read"
  /\ \E i \in 1..Len(agent_states) :
       sessions' = [sessions EXCEPT ![p] =
         [@ EXCEPT !.pc = "write", !.row = i, !.snapshot = agent_states[i],
                   !.stale = FALSE]]
  /\ UNCHANGED <<conversations, messages, agent_states, last, agent, call>>

\* the rest of update_agent_state and of process_chat: the loaded row is
\* updated in memory, the messages are counted, the commit writes the
\* columns that were assigned, and the reply is returned
WriteState(p) ==
  LET me == sessions[p]
      turn == Turns[me.message, me.llm]
      count == CountMessages(messages, conversations)
      computed == update_agent_state(me.snapshot, turn.new_memories,
                                     turn.result.extracted_info, count)
      stored == agent_states[me.row]
      written ==
        [current_stage |-> IF me.snapshot.current_stage # computed.current_stage
                           THEN computed.current_stage ELSE stored.current_stage,
         key_memories |-> IF turn.new_memories # <<>>
                          THEN computed.key_memories ELSE stored.key_memories,
         user_traits |-> computed.user_traits,
         conversation_topics |-> computed.conversation_topics]
  IN /\ me.pc = "write"
     /\ agent_states' = [agent_states EXCEPT ![me.row] = written]
     /\ sessions' = [q \in Sessions |->
          IF q = p
          THEN [IdleSession EXCEPT !.turns = me.turns + 1,
                                   !.overlaps = me.overlaps + (IF me.stale THEN 1 ELSE 0)]
          ELSE IF sessions[q].pc = "write" /\ sessions[q].row = me.row
               THEN [sessions[q] EXCEPT !.stale = TRUE]
               ELSE sessions[q]]
     /\ last' = [op |-> "process_chat", status |-> "returned",
                 llm_failed |-> me.llm.failed, db |-> "ok", result |-> turn.result,
                 interaction_count |-> count,
                 returned |-> [response |-> turn.result.response,
                               current_stage |-> written.current_stage]]
     /\ UNCHANGED <<conversations, messages, agent, call>>

NextOverlap ==
  \E p \in Sessions :
    \/ \E conversation_id \in {NoConversation} \cup conversations,
          message \in DeepUserInputs :
         Begin(p, conversation_id, message, LlmReturns(LlmText.plain_reply))
    \/ QueryState(p)
    \/ InsertState(p)
    \/ Generate(p)
    \/ ReadState(p)
    \/ WriteState(p)

SpecOverlap == Init /\ [][NextOverlap]_vars

---------------------------------------------------------------------------
(* Construction of a CharacterAgent from a configured character_profile,  *)
(* and the system prompt built from the profile it holds.                 *)

\* the dicts that hold, for each option in order, no entry or one of the
\* option's values
RECURSIVE Profiles(_)
Profiles(options) ==
  IF options = <<>> THEN {<<>>}
  ELSE LET key == Head(options)[1]
           rest == Profiles(Tail(options))
       IN rest \cup {<<<<key, value>>>> \o r : value \in Head(options)[2], r \in rest}

\* AgentConfig.character_profile is a JSON column that takes any dict
\* (schemas.py: Dict[str, Any]): keys and values the environment offers
ProfileOptions ==
  <<<<K.name, {Str(Sample.agent_name), Str(Sample.blank)}>>,
    <<Sample.alias_name_key, {Str(Sample.lina)}>>,
    <<K.personality, {Str(Sample.gentle), Str(<<>>)}>>,
    <<K.race, {Str(Sample.elf), Str(Sample.robot), Str(Sample.city_dweller), Str(Sample.ancient)}>>,
    <<K.skills, {List(<<Str(Sample.archery)>>), Number(Sample.five), Null}>>,
    <<Sample.demon_king_key, {Null}>>,
    <<Sample.motto_key, {Str(Sample.motto)}>>,
    <<K.custom_fields, {Dict(<<<<Sample.pet_key, Str(Sample.cat)>>>>),
                        Dict(<<<<K.name, Str(Sample.shadow)>>>>),
                        Dict(<<<<K.personality, Number(Sample.five)>>>>)}>>>>

\* the raw_profile values: a dict, the JSON text of a dict, a text that
\* is no JSON, a number
RawProfiles ==
  {Dict(p) : p \in Profiles(ProfileOptions)}
  \cup {Json(p) : p \in {q \in Profiles(ProfileOptions) : Len(q) <= 1}}
  \cup {Str(Sample.elf_text), Number(Sample.five)}

\* CharacterAgent.__init__
NewCharacterAgent ==
  /\ agent.step = "configured"
  /\ agent' = [agent EXCEPT !.step = "created",
                 !.character_profile = validate_and_normalize(Sample.agent_name, agent.raw_profile)]
  /\ UNCHANGED <<conversations, messages, agent_states, last, sessions, call>>

\* validate_and_normalize applied to a profile it returned
Renormalize ==
  /\ agent.step = "created"
  /\ agent' = [agent EXCEPT !.step = "renormalized",
                 !.again = validate_and_normalize(Sample.agent_name, Dict(agent.character_profile))]
  /\ UNCHANGED <<conversations, messages, agent_states, last, sessions, call>>

\* CharacterAgent.build_system_prompt(stage, agent_state)
BuildSystemPrompt(stage) ==
  /\ agent.step = "created"
  /\ agent' = [agent EXCEPT !.step = "prompted",
                 !.prompt = build_system_prompt(agent.character_profile, stage,
                                                [NewAgentState EXCEPT !.current_stage = stage])]
  /\ UNCHANGED <<conversations, messages, agent_states, last, sessions, call>>

InitSchema ==
  /\ conversations = {}
  /\ messages = [c \in ConvIds \cup {OtherConversation} |-> 0]
  /\ agent_states = <<>>
  /\ last = Idle
  /\ sessions = [p \in Sessions |-> IdleSession]
  /\ agent \in {[NoAgent EXCEPT !.step = "configured", !.raw_profile = r] : r \in RawProfiles}
  /\ call = NoCall

NextSchema ==
  \/ NewCharacterAgent
  \/ Renormalize
  \/ \E stage \in {RELATIONSHIP_STAGES[i] : i \in 1..Len(RELATIONSHIP_STAGES)} \cup {LegacyStage} :
       BuildSystemPrompt(stage)

SpecSchema == InitSchema /\ [][NextSchema]_vars

---------------------------------------------------------------------------
(* The text functions, each applied once to arguments the caller chooses. *)

\* the texts of at most n characters over an ideograph, a full stop and a
\* Latin letter
RECURSIVE TextsUpTo(_)
TextsUpTo(n) ==
  IF n = 0 THEN {<<>>}
  ELSE LET shorter == TextsUpTo(n - 1)
       IN shorter \cup {Append(t, c) : t \in shorter, c \in {22909, 12290, 97}}

\* ResponseFormatter.truncate_text(text, max_chinese_chars)
TruncateText ==
  /\ call.fn = "format" /\ ~call.done
  /\ call' = [call EXCEPT !.fn = "truncate_text", !.done = TRUE,
                !.result = truncate_text(call.text, call.max_length)]
  /\ UNCHANGED <<conversations, messages, agent_states, last, sessions, agent>>

\* CharacterAgent.format_response(response) of an agent whose
\* output_format holds max_length
FormatResponse ==
  /\ call.fn = "format" /\ ~call.done
  /\ call' = [call EXCEPT !.fn = "format_response", !.done = TRUE,
                !.result = format_response_max(call.text, call.max_length)]
  /\ UNCHANGED <<conversations, messages, agent_states, last, sessions, agent>>

\* pieces of the texts a user sends and the model returns
Fragment ==
  [promise_reply |-> <<25105, 20445, 35777, 20250, 19968, 30452, 20445, 25252, 20320>>,  \* 我保证会一直保护你
   help_request |-> <<20320, 24895, 24847, 24110, 25105, 21527>>,  \* 你愿意帮我吗
   forever |-> <<27704, 36828, 12290>>,  \* 永远。
   secret |-> <<36825, 26159, 19968, 20010, 22825, 22823, 30340, 31192, 23494, 12290>>,  \* 这是一个天大的秘密。
   sorry |-> <<23545, 19981, 36215>>,  \* 对不起
   afraid |-> <<25105, 24456, 23475, 24597>>,  \* 我很害怕
   torn |-> <<25105, 24456, 30683, 30462>>,  \* 我很矛盾
   agreement |-> <<36825, 26159, 25105, 20204, 30340, 32422, 23450>>]  \* 这是我们的约定

\* the texts made of at most n pieces
RECURSIVE Phrases(_)
Phrases(n) ==
  IF n = 0 THEN {<<>>}
  ELSE LET shorter == Phrases(n - 1)
       IN shorter \cup {t \o Fragment[f] : t \in shorter, f \in DOMAIN Fragment}

\* CharacterAgent.extract_info_from_response(response, user_input)
ExtractInfo ==
  /\ call.fn = "extract" /\ ~call.done
  /\ call' = [call EXCEPT !.fn = "extract_info_from_response", !.done = TRUE,
                !.result = extract_info_from_response(call.text, call.user_input)]
  /\ UNCHANGED <<conversations, messages, agent_states, last, sessions, agent>>

\* what a turn with this user message and this reply of the model computes:
\* generate_response, then _extract_key_memories
ExtractTurn ==
  /\ call.fn = "extract" /\ ~call.done
  /\ call' = [call EXCEPT !.fn = "turn", !.done = TRUE,
                !.result = Turn(call.user_input, LlmReturns(call.text))]
  /\ UNCHANGED <<conversations, messages, agent_states, last, sessions, agent>>

\* MemoryManager.get_conversation_history(conversation_id, limit): the
\* newest `limit` Message rows of the conversation, oldest first.  rows is
\* the conversation's rows in the order of created_at.
get_conversation_history(rows, limit) ==
  LET newest == LastN(rows, limit)
  IN [i \in 1..Len(newest) |-> [role |-> newest[i].role, content |-> newest[i].content,
                                row |-> newest[i].id]]

\* the list `messages` that CharacterAgent.generate_response hands to
\* self.llm.invoke.  Of the system prompt and of the user prompt only the
\* heading and the texts around the user's message are kept.  row is the
\* Message row an entry was read from, 0 for a text built in this call.
MessageList(user_input, conversation_history) ==
  LET recent == LastN(conversation_history, HistoryWindow)
  IN <<[type |-> "system", content |-> PromptText.role_heading, row |-> 0]>>
     \o [i \in 1..Len(recent) |->
          [type |-> IF recent[i].role = "user" THEN "human" ELSE "ai",
           content |-> recent[i].content, row |-> recent[i].row]]
     \o <<[type |-> "human",
           content |-> PromptText.user_message_label \o user_input
                       \o PromptText.reply_request,
           row |-> 0]>>

\* steps 3 to 8 of ChatService.process_chat in one conversation, every
\* database call succeeding: the user message is saved, the history is read,
\* the message list is built and sent, the reply is saved.  call.result
\* holds the conversation's Message rows, the list sent in the last turn
\* and the id of the row that holds the last turn's user message.
ChatTurn ==
  \E message \in {UserText.plain, UserText.sword},
     llm \in {LlmFails, LlmReturns(LlmText.plain_reply)} :
    LET rows == call.result.rows
        user_message == [id |-> Len(rows) + 1, role |-> "user", content |-> message]
        saved == Append(rows, user_message)
        history == get_conversation_history(saved, HistoryLimit)
        result == generate_response(message, llm)
        ai_message == [id |-> Len(saved) + 1, role |-> "assistant",
                       content |-> result.response]
    IN /\ call.fn = "chat"
       /\ Len(rows) + 2 <= HistoryMaxMessages
       /\ call' = [call EXCEPT !.user_input = message,
                     !.result = [rows |-> Append(saved, ai_message),
                                 sent |-> MessageList(message, history),
                                 user_row |-> user_message.id]]
       /\ UNCHANGED <<conversations, messages, agent_states, last, sessions, agent>>

\* the calls a caller may make: a text to format with a max_length, a
\* reply of the model with the user message it answers, or the turns of a
\* new conversation
InitText ==
  /\ conversations = {}
  /\ messages = [c \in ConvIds \cup {OtherConversation} |-> 0]
  /\ agent_states = <<>>
  /\ last = Idle
  /\ sessions = [p \in Sessions |-> IdleSession]
  /\ agent = NoAgent
  /\ call \in {[NoCall EXCEPT !.fn = "format", !.text = t, !.max_length = n] :
                 t \in TextsUpTo(MaxTextLen), n \in 1..MaxCut}
             \cup {[NoCall EXCEPT !.fn = "extract", !.text = t, !.user_input = u] :
                     t \in Phrases(MaxFragments), u \in Phrases(1)}
             \cup {[NoCall EXCEPT !.fn = "chat",
                                   !.result = [rows |-> <<>>, sent |-> <<>>, user_row |-> 0]]}

NextText ==
  \/ TruncateText
  \/ FormatResponse
  \/ ExtractInfo
  \/ ExtractTurn
  \/ ChatTurn

SpecText == InitText /\ [][NextText]_vars

---------------------------------------------------------------------------
(* Properties *)

Stages == {RELATIONSHIP_STAGES[i] : i \in 1..Len(RELATIONSHIP_STAGES)}

\* position of a stage in Stranger < Familiar < Friendly < Intimate
StageRank(stage) == CHOOSE i \in 1..Len(RELATIONSHIP_STAGES) : RELATIONSHIP_STAGES[i] = stage

\* the last operation was a process_chat call that returned: its advance completed
Completed == last.op = "process_chat" /\ last.status = "returned"

\* the stage the specification assigns to a count and a number of memories
StageOf(count, memories) ==
  IF count < 5 THEN Stranger
  ELSE IF count < 15 THEN Familiar
  ELSE IF count < 30 THEN (IF memories > 8 THEN Intimate ELSE Friendly)
  ELSE Intimate

\* C1: after a completed advance in which the memory override does not apply,
\* the stored stage is Stranger for a queried count below 5, Familiar for 5..14,
\* Friendly for 15..29 and Intimate from 30 on.
C1_StageThresholds ==
  Completed =>
    LET count == last.interaction_count
        stage == PairState.current_stage
        memories == Len(PairState.key_memories)
    IN /\ count < 5 => stage = Stranger
       /\ (count >= 5 /\ count < 15) => stage = Familiar
       /\ (count >= 15 /\ count < 30 /\ memories <= 8) => stage = Friendly
       /\ count >= 30 => stage = Intimate

\* an advance ran on the odd count 29 and left Friendly
C1_Witness ==
  /\ Completed
  /\ last.interaction_count = 29
  /\ Len(PairState.key_memories) <= 8
  /\ PairState.current_stage = Friendly

\* C2: the thresholds are applied to the number of completed turns of the
\* pair: after the n-th completed turn (no override) the stage is the one the
\* thresholds give for n, so Stranger up to the 4th turn, Familiar at the 5th.
C2_TurnCountStaging ==
  (Completed /\ Len(PairState.key_memories) <= 8) =>
    PairState.current_stage = StageOf(InteractionCount(PairState.user_traits), 0)

\* C3: a computed Friendly with more than 8 key memories (after this turn's
\* were appended) is stored as Intimate; a computed Stranger or Familiar is
\* stored unchanged whatever the number of memories.
C3_MemoryOverride ==
  Completed =>
    LET count == last.interaction_count
        stage == PairState.current_stage
        memories == Len(PairState.key_memories)
    IN /\ (count >= 15 /\ count < 30 /\ memories > 8) => stage = Intimate
       /\ (count < 5 /\ memories > 8) => stage = Stranger
       /\ (count >= 5 /\ count < 15 /\ memories > 8) => stage = Familiar

\* count 20 with 9 memories was stored as Intimate
C3_Witness ==
  /\ Completed
  /\ last.interaction_count = 20
  /\ Len(PairState.key_memories) = 9
  /\ PairState.current_stage = Intimate

\* count 10 with 9 memories stayed Familiar
C3_WitnessFamiliar ==
  /\ Completed
  /\ last.interaction_count = 10
  /\ Len(PairState.key_memories) = 9
  /\ PairState.current_stage = Familiar

\* C4: in serialized turns with no conversation deleted, no step moves the
\* pair's stage to an earlier one.
C4_StageNonDecreasing ==
  [][StageRank(PairState.current_stage') >= StageRank(PairState.current_stage)]_vars

\* serialized turns have brought the pair to Intimate through the override
C4_Witness ==
  /\ Completed
  /\ PairState.current_stage = Intimate
  /\ last.interaction_count < 30

\* C5: whatever operations ran before (turns, conversation creation,
\* conversation deletion), the stage recorded by a completed turn is never
\* earlier than the stage recorded by the previous one.
C5_StageNeverEarlierAfterTurn ==
  [][(last'.op = "process_chat" /\ last'.status = "returned")
       => StageRank(PairState.current_stage') >= StageRank(PairState.current_stage)]_vars

\* C6: after every completed advance the stored stage is StageOf(queried
\* count, number of key memories after the turn), whatever stage was stored
\* before.
C6_StagePureFunction ==
  Completed =>
    PairState.current_stage =
      StageOf(last.interaction_count, Len(PairState.key_memories))

\* a pair that has 15 memories (so it once was at least Familiar) is stored as
\* Stranger by an advance that counted 2 messages
C6_Witness ==
  /\ Completed
  /\ last.interaction_count = 2
  /\ Len(PairState.key_memories) = 15
  /\ PairState.current_stage = Stranger

\* C7: a turn whose generation call failed leaves stage, key_memories,
\* user_traits and conversation_topics as they were.
C7_FailedGenerationKeepsState ==
  [][(last'.op = "process_chat" /\ last'.llm_failed) => PairState' = PairState]_vars

\* C8: when the generation call fails, generate_response yields the apology
\* reply, an empty raw reply and no signals, and process_chat (its database
\* calls succeeding) returns that reply.
C8_GenerationFailureNotFatal ==
  (last.op = "process_chat" /\ last.llm_failed) =>
    /\ last.result.response = ApologyPrefix \o LlmText.provider_error
    /\ last.result.raw_response = <<>>
    /\ DOMAIN last.result.extracted_info = {}
    /\ last.db = "ok" =>
         /\ last.status = "returned"
         /\ last.returned.response = last.result.response

\* a turn with a failed generation call returned the apology
C8_Witness ==
  /\ last.op = "process_chat"
  /\ last.llm_failed
  /\ last.status = "returned"
  /\ last.returned.response = ApologyPrefix \o LlmText.provider_error

\* C9: a turn whose message-count query fails raises to its caller, returns
\* no reply, and leaves the pair's stage, key_memories, user_traits and
\* conversation_topics as they were before the turn.
C9_CountFailurePropagates ==
  [][(last'.op = "process_chat" /\ last'.db = "count_fails")
       => /\ last'.status = "raised"
          /\ DOMAIN last'.returned = {}
          /\ PairState' = PairState]_vars

\* the count query failed in a turn of a pair that already had memories
C9_Witness ==
  /\ last.op = "process_chat"
  /\ last.db = "count_fails"
  /\ last.status = "raised"
  /\ PairState.key_memories # <<>>

C11_MemoriesCapped ==
  \A i \in 1..Len(agent_states) : Len(agent_states[i].key_memories) <= 15

\* sixteen turns each extracted a memory and the list holds 15
C11_Witness ==
  /\ Completed
  /\ InteractionCount(PairState.user_traits) = 16
  /\ Len(PairState.key_memories) = 15
  /\ last.interaction_count = 32

\* the elements of a list are pairwise different
NoDuplicates(list) ==
  \A i, j \in 1..Len(list) : list[i] = list[j] => i = j

\* the entries of items that list does not hold, in the order of items
RECURSIVE NotIn(_, _)
NotIn(items, list) ==
  IF items = <<>> THEN <<>>
  ELSE (IF \E i \in 1..Len(list) : list[i] = Head(items) THEN <<>> ELSE <<Head(items)>>)
       \o NotIn(Tail(items), list)

C14_OneStatePerPair ==
  [][/\ Len(agent_states') <= 1
     /\ Len(agent_states') > Len(agent_states)
          => agent_states'[Len(agent_states')] =
               [current_stage |-> Stranger, key_memories |-> <<>>,
                user_traits |-> EmptyDict, conversation_topics |-> <<>>]]_vars

\* the interaction counters of the pair's rows, added up
CountedTurns ==
  SumOver([i \in 1..Len(agent_states) |-> InteractionCount(agent_states[i].user_traits)],
          1..Len(agent_states))

\* the turns the requests completed
CompletedTurns == SumOver([p \in Sessions |-> sessions[p].turns], Sessions)

NonEmptyValue(profile, key) ==
  /\ Has(profile, key)
  /\ Lookup(profile, key).t # "null"
  /\ Lookup(profile, key).t = "str" => Lookup(profile, key).s # <<>>
  /\ Lookup(profile, key).t \in {"list", "dict"} => Lookup(profile, key).d # <<>>

\* C16: whatever path validate_and_normalize took (validated, raw
\* fallback, stub), the profile it returned holds name and personality,
\* each with a non-empty value.
C16_NameAndPersonalityPresent ==
  agent.step = "created" =>
    /\ NonEmptyValue(agent.character_profile, K.name)
    /\ NonEmptyValue(agent.character_profile, K.personality)

\* the synonym keys of field_mapping
Aliases == {field_mapping[i][1] : i \in 1..Len(field_mapping)}

\* the profile is annotated as the raw fallback
IsRawFallback(profile) == GetOr(profile, Meta.schema_type, Null) = Str(AgentType.raw)

\* C17: when validation of the profile fails, the returned map is the
\* alias-normalized profile (no synonym key is left, every normalized entry
\* is there) with schema type raw, validated false and a warning string.
C17_RawFallbackIsAliased ==
  (agent.step = "created" /\ IsRawFallback(agent.character_profile)) =>
    LET profile == agent.character_profile
        normalized == normalize_field_names(ParseProfile(agent.raw_profile))
    IN /\ \A i \in 1..Len(profile) : profile[i][1] \notin Aliases
       /\ \A i \in 1..Len(normalized) :
            /\ Has(profile, normalized[i][1])
            /\ Lookup(profile, normalized[i][1]) = normalized[i][2]
       /\ GetOr(profile, Meta.validated, Null) = Bool(SchemaText.false_text)
       /\ GetOr(profile, Meta.validation_warning, Null).t = "str"

\* the profile is annotated as validated
IsValidated(profile) == GetOr(profile, Meta.validated, Null) = Bool(SchemaText.true_text)

\* C18: in a successfully validated output, every key of the raw profile
\* that is neither a synonym nor a field of the schema is there with its
\* value unchanged, and every canonical field the schema instance holds
\* (not None) has the validated value: the custom fields merged back have
\* replaced none.
C18_CustomFieldsPreserved ==
  (agent.step = "created" /\ IsValidated(agent.character_profile)) =>
    LET profile == agent.character_profile
        raw == ParseProfile(agent.raw_profile)
        normalized == normalize_field_names(raw)
        fields == SchemaFields(Lookup(profile, Meta.schema_type).s)
        known == {fields[i][1] : i \in 1..Len(fields)}
    IN /\ \A i \in 1..Len(raw) :
            raw[i][1] \notin Aliases \cup known =>
              /\ Has(profile, raw[i][1])
              /\ Lookup(profile, raw[i][1]) = raw[i][2]
       /\ \A i \in 1..Len(fields) :
            FieldValue(fields[i], normalized) # Null =>
              GetOr(profile, fields[i][1], Null) = FieldValue(fields[i], normalized)

\* the canonical field names: the fields of AdvancedCharacterSchema
CanonicalKeys ==
  {CharacterSchema[i][1] : i \in 1..Len(CharacterSchema)}
  \cup {AdvancedFields[i][1] : i \in 1..Len(AdvancedFields)}

\* C19: validate_and_normalize applied to its own output returns the same
\* canonical fields, the same schema type and the same validated flag as
\* the first application.
C19_Idempotent ==
  agent.step = "renormalized" =>
    /\ \A key \in CanonicalKeys :
         /\ Has(agent.again, key) <=> Has(agent.character_profile, key)
         /\ Has(agent.again, key) =>
              Lookup(agent.again, key) = Lookup(agent.character_profile, key)
    /\ GetOr(agent.again, Meta.schema_type, Null) = GetOr(agent.character_profile, Meta.schema_type, Null)
    /\ GetOr(agent.again, Meta.validated, Null) = GetOr(agent.character_profile, Meta.validated, Null)

\* the slots of the prompt that render a profile field with default ''
EmptySlots(profile, prompt) ==
  /\ ~Has(profile, K.personality) => prompt.personality = <<>>
  /\ ~Has(profile, K.gender) => prompt.gender = <<>>
  /\ ~Has(profile, K.age) => prompt.age = <<>>
  /\ ~Has(profile, K.appearance) => prompt.appearance = <<>>
  /\ ~Has(profile, K.clothing) => prompt.clothing = <<>>
  /\ ~Has(profile, K.skills) => prompt.skills = <<>>
  /\ ~Has(profile, K.traits) => prompt.traits = <<>>

\* C20: for every profile validate_and_normalize returned and every stage
\* string, build_system_prompt returns a prompt and does not raise; fields
\* the profile lacks are rendered empty and a stage that is none of the
\* four gets an empty description.
C20_PromptNeverRaises ==
  agent.step = "prompted" =>
    /\ ~agent.prompt.raised
    /\ EmptySlots(agent.character_profile, agent.prompt)
    /\ agent.prompt.stage \notin Stages => agent.prompt.stage_description = <<>>

\* the text the truncation of a call works on: format_response cleans the
\* whitespace first
CutInput == IF call.fn = "format_response" THEN Strip(CollapseWhitespace(call.text)) ELSE call.text

\* C21: whatever the text and max_length N >= 1, the formatted output holds
\* at most N ideographic characters; when the text holds more than N and
\* the sentence-boundary result holds fewer than 30% of N, the hard cut
\* leaves exactly N ideographic characters.
C21_AtMostMaxIdeographs ==
  (call.done /\ call.fn \in {"truncate_text", "format_response"}) =>
    /\ ChineseChars(call.result) <= call.max_length
    /\ ( /\ ChineseChars(CutInput) > call.max_length
         /\ 10 * ChineseChars(Accumulate(SplitKeep(CutInput), <<>>, call.max_length))
              < 3 * call.max_length )
       => ChineseChars(call.result) = call.max_length

\* C22: each of the three key-point tags is in key_points exactly when a
\* keyword of its group occurs in the response or in the user input, each
\* group on its own.
C22_KeyPointsFromBothTexts ==
  (call.done /\ call.fn = "extract_info_from_response") =>
    LET tagged(tag) == InList(tag, call.result.key_points)
        present(keywords) == AnyIn(keywords, call.text) \/ AnyIn(keywords, call.user_input)
    IN /\ tagged(KeyPoint.important_promise) <=> present(promise_keywords)
       /\ tagged(KeyPoint.secret_revealed) <=> present(secret_keywords)
       /\ tagged(KeyPoint.apology_or_forgiveness) <=> present(apology_keywords)

\* C23: for the reply 我保证会一直保护你 to the user message 你愿意帮我吗, the
\* extracted key_points hold the important-promise tag and the turn's new
\* memories hold an entry that starts with 提到：.
C23_PromiseRecognised ==
  ( /\ call.done /\ call.fn = "turn"
    /\ call.text = Fragment.promise_reply
    /\ call.user_input = Fragment.help_request ) =>
    /\ InList(KeyPoint.important_promise, call.result.result.extracted_info.key_points)
    /\ \E i \in 1..Len(call.result.new_memories) :
         Prefix(call.result.new_memories[i], Len(MemoryText.mention_prefix))
           = MemoryText.mention_prefix

\* the entries of a list, as a set
Entries(list) == {list[i] : i \in 1..Len(list)}

\* the traits the emotions of a turn stand for, fear standing for none
ImagesOf(emotions) ==
  {emotion_to_trait[i][2] : i \in {i \in 1..Len(emotion_to_trait) :
                                     emotion_to_trait[i][1] \in Entries(emotions)}}

StartsWith(text, start) == Len(text) >= Len(start) /\ SubSeq(text, 1, Len(start)) = start

\* the first emotion of the list that is 愤怒, 悲伤, 喜悦 or 恐惧, as a list of
\* at most one entry
FirstStrong(emotions) ==
  LET strong == {i \in 1..Len(emotions) :
                   emotions[i] \in {Emotion.anger, Emotion.sadness, Emotion.joy, Emotion.fear}}
  IN IF strong = {} THEN <<>> ELSE <<emotions[CHOOSE i \in strong : \A j \in strong : i <= j]>>

C26_AllOrNothing ==
  [][(last'.op = "process_chat" /\ last'.status = "raised")
       => /\ CountMessages(messages', conversations') = CountMessages(messages, conversations)
          /\ PairState' = PairState]_vars

\* C27: the list sent to the model in a turn is the system prompt, then at
\* most 5 messages saved before the turn, oldest first and ending with the
\* newest of them, then the user prompt of the turn; the turn's user
\* message is in the list once.
C27_MessageListShape ==
  (call.fn = "chat" /\ call.result.sent # <<>>) =>
    LET sent == call.result.sent
        prior == SubSeq(sent, 2, Len(sent) - 1)
        current == {i \in 1..Len(sent) : i = Len(sent) \/ sent[i].row = call.result.user_row}
    IN /\ Len(sent) >= 2
       /\ sent[1].type = "system"
       /\ sent[Len(sent)].type = "human"
       /\ Contains(sent[Len(sent)].content, call.user_input)
       /\ Len(prior) <= 5
       /\ \A i \in 1..Len(prior) :
            /\ prior[i].row \in 1..(call.result.user_row - 1)
            /\ i > 1 => prior[i].row = prior[i - 1].row + 1
       /\ Cardinality(current) = 1

\* C28: in serialized turns of a pair, a turn leaves the stage or moves it
\* to the next one of 陌生期, 熟悉期, 友好期, 亲密期; none is skipped.
C28_NoStageSkipped ==
  [][LET before == StageRank(PairState.current_stage)
         after == StageRank(PairState'.current_stage)
     IN last'.op = "process_chat" => after \in {before, before + 1}]_vars

\* C29: in a completed turn the conversation that receives the two messages
\* is one of the pair whose state is advanced, whatever conversation_id was
\* passed, and the count that sets the pair's stage includes both messages.
C29_MessagesOfThePair ==
  [][(last'.op = "process_chat" /\ last'.status = "returned")
       => /\ \A c \in DOMAIN messages : messages'[c] # messages[c] => c \in conversations'
          /\ last'.interaction_count = CountMessages(messages, conversations) + 2]_vars

\* C30: when a keyword of important_keywords occurs in a sentence of more
\* than 5 characters of the user input or of the reply, the turn yields
\* exactly one memory that starts with 提到：, whether or not an earlier
\* keyword of the list occurs in shorter sentences only.
C30_KeywordMemoryEmitted ==
  call.fn = "turn" =>
    LET sentences == Split(call.user_input) \o Split(call.text)
        qualifies == \E k \in 1..Len(important_keywords), i \in 1..Len(sentences) :
                       /\ Contains(sentences[i], important_keywords[k])
                       /\ Len(Strip(sentences[i])) > 5
        new == call.result.new_memories
    IN qualifies =>
         Cardinality({i \in 1..Len(new) : StartsWith(new[i], MemoryText.mention_prefix)}) = 1

=============================================================================
